---------------------------- MODULE Spec2Model ----------------------------
(***************************************************************************)
(* Model of conference_room_server.py: the background refresh loop, the    *)
(* start-up fetch, the HTTP handlers and the appointment selection they    *)
(* run over the records of the remote booking API.                         *)
(*                                                                         *)
(* Time is counted in ticks.  One calendar day is DayLen ticks, an instant *)
(* is a number of ticks on the UTC time line, and a wall-clock reading is  *)
(* the instant plus the UTC offset of the zone it is read in.  Python is   *)
(* taken to be 3.11 or later (datetime.fromisoformat accepts any number of *)
(* fractional digits and keeps the first six).                             *)
(***************************************************************************)
EXTENDS Integers, Sequences, FiniteSets, TLC

\* ------------------------------------------------------------------ scale
\* timedelta(days=1): the length of one calendar day, in ticks.
DayLen == 4
\* CONFIG['refresh_interval']: the number of sleep steps between two attempts.
RefreshInterval == 1
\* Microseconds in one tick (the resolution parse_graph_datetime keeps).
MicrosPerTick == 1000000

\* ----------------------------------------------------------------- bounds
\* The wall clock runs from ClockStart to MaxClock (UTC ticks).
MaxClock == 6
\* The remote API answers with at most MaxRecords records.
MaxRecords == 2

ClockStart == DayLen + 1

\* ------------------------------------------------------------- datetimes
\* A datetime object: k = "naive" (tzinfo is None) or "aware"; wall is the
\* wall-clock reading in ticks, us its microsecond field, off its UTC offset.
NoneDT == [k |-> "none", wall |-> 0, us |-> 0, off |-> 0]
NaiveDT(w, u) == [k |-> "naive", wall |-> w, us |-> u, off |-> 0]
AwareDT(w, u, o) == [k |-> "aware", wall |-> w, us |-> u, off |-> o]

\* The position of an aware datetime on the UTC time line, in microseconds.
UtcMicros(dt) == (dt.wall - dt.off) * MicrosPerTick + dt.us
\* The wall-clock fields of a datetime, in microseconds.
WallMicros(dt) == dt.wall * MicrosPerTick + dt.us

\* dt.astimezone(): a naive datetime is taken to be local time, an aware one
\* is converted to the local zone (offset loc).
astimezone(dt, loc) ==
    IF dt.k = "naive" THEN AwareDT(dt.wall, dt.us, loc)
    ELSE AwareDT(dt.wall - dt.off + loc, dt.us, loc)

\* dt.strftime('%I:%M %p'): the time of day; the date is not printed.
FormatTime(dt) == dt.wall % DayLen
\* dt.replace(hour=0, minute=0, second=0, microsecond=0)
Midnight(dt) == [dt EXCEPT !.wall = (dt.wall \div DayLen) * DayLen, !.us = 0]
\* dt + timedelta(days=1)
PlusOneDay(dt) == [dt EXCEPT !.wall = dt.wall + DayLen]

\* datetime.now(): the naive local wall-clock reading of instant c.
NowNaive(c, loc) == NaiveDT(c + loc, 0)
\* datetime.now().astimezone()
NowLocal(c, loc) == astimezone(NowNaive(c, loc), loc)

\* --------------------------------------------------- timestamp strings
\* A timestamp string of the remote API: k = "empty" (''), "garbage" (no
\* date in it) or "ts": <date>T<time>[.<frac>][Z | +hh:mm | -hh:mm], where
\* wall is the date and time in ticks, frac the fractional digits, tz one of
\* "Z", "plus", "minus", "none", and off the magnitude of the offset.
EmptyStr == [k |-> "empty", wall |-> 0, frac |-> <<>>, tz |-> "none", off |-> 0]
GarbageStr == [k |-> "garbage", wall |-> 0, frac |-> <<>>, tz |-> "none", off |-> 0]
TsStr(w, f, z, o) == [k |-> "ts", wall |-> w, frac |-> f, tz |-> z, off |-> o]

RECURSIVE DigitsValue(_)
DigitsValue(ds) ==
    IF ds = <<>> THEN 0 ELSE DigitsValue(SubSeq(ds, 1, Len(ds) - 1)) * 10 + ds[Len(ds)]

RECURSIVE ljust(_, _)
\* str.ljust(n, '0')
ljust(ds, n) == IF Len(ds) >= n THEN ds ELSE ljust(Append(ds, 0), n)

\* microsec_part[:6].ljust(6, '0'), as a number of microseconds.
TruncMicros(frac) ==
    DigitsValue(ljust(SubSeq(frac, 1, IF Len(frac) < 6 THEN Len(frac) ELSE 6), 6))

\* The recovery path of lines 83-91 taken for a negative offset: the
\* fraction is dropped and the offset replaced by +00:00.
parse_graph_datetime_recovers(s) ==
    IF s.k # "ts" THEN NoneDT
    ELSE IF s.tz = "Z" THEN AwareDT(s.wall, TruncMicros(s.frac), 0)
    ELSE IF s.tz = "plus" THEN AwareDT(s.wall, TruncMicros(s.frac), s.off)
    ELSE IF s.tz = "minus" THEN
        IF s.frac = <<>> THEN AwareDT(s.wall, 0, 0 - s.off) ELSE AwareDT(s.wall, 0, 0)
    ELSE NaiveDT(s.wall, TruncMicros(s.frac))

\* A string that does not parse read as the epoch instead of None.
parse_graph_datetime_epoch(s) ==
    IF s.k # "ts" THEN AwareDT(0, 0, 0)
    ELSE IF s.tz = "Z" THEN AwareDT(s.wall, TruncMicros(s.frac), 0)
    ELSE IF s.tz = "plus" THEN AwareDT(s.wall, TruncMicros(s.frac), s.off)
    ELSE IF s.tz = "minus" THEN AwareDT(s.wall, TruncMicros(s.frac), 0 - s.off)
    ELSE NaiveDT(s.wall, TruncMicros(s.frac))

\* parse_graph_datetime: None for a falsy or unparseable string; otherwise
\* the datetime with the fraction cut to six digits, aware with the stated
\* offset ('Z' is +00:00) or naive when the string states none.
parse_graph_datetime(s) ==
    IF s.k # "ts" THEN NoneDT
    ELSE IF s.tz = "Z" THEN AwareDT(s.wall, TruncMicros(s.frac), 0)
    ELSE IF s.tz = "plus" THEN AwareDT(s.wall, TruncMicros(s.frac), s.off)
    ELSE IF s.tz = "minus" THEN AwareDT(s.wall, TruncMicros(s.frac), 0 - s.off)
    ELSE NaiveDT(s.wall, TruncMicros(s.frac))

\* ------------------------------------------------------------ comparison
\* <= and >= taken as < and >.
Cmp_strict(a, b, operation) ==
    CASE operation = "lt" -> a < b
      [] operation = "le" -> a < b
      [] operation = "gt" -> a > b
      [] operation = "ge" -> a > b
      [] OTHER -> FALSE

Cmp(a, b, operation) ==
    CASE operation = "lt" -> a < b
      [] operation = "le" -> a <= b
      [] operation = "gt" -> a > b
      [] operation = "ge" -> a >= b
      [] OTHER -> FALSE

\* Lines 117-121 left out: operands of different awareness are compared as
\* they are, the TypeError is caught at line 132 and False returned.
compare_datetimes_uncoerced(dt1, dt2, operation) ==
    IF dt1.k = "none" \/ dt2.k = "none" THEN FALSE
    ELSE IF dt1.k = dt2.k THEN
        IF dt1.k = "aware" THEN Cmp(UtcMicros(dt1), UtcMicros(dt2), operation)
        ELSE Cmp(WallMicros(dt1), WallMicros(dt2), operation)
    ELSE FALSE

\* Lines 118-121 with astimezone(timezone.utc) in place of replace(): the
\* naive operand is converted, its wall-clock reading taken as UTC.
compare_datetimes_converted(dt1, dt2, operation) ==
    IF dt1.k = "none" \/ dt2.k = "none" THEN FALSE
    ELSE IF dt1.k = dt2.k THEN
        IF dt1.k = "aware" THEN Cmp(UtcMicros(dt1), UtcMicros(dt2), operation)
        ELSE Cmp(WallMicros(dt1), WallMicros(dt2), operation)
    ELSE IF dt1.k = "naive" THEN
        Cmp(UtcMicros(AwareDT(dt1.wall, dt1.us, 0)), UtcMicros(dt2), operation)
    ELSE
        Cmp(UtcMicros(dt1), UtcMicros(AwareDT(dt2.wall, dt2.us, 0)), operation)

\* compare_datetimes_safely: operands of the same awareness are compared
\* directly; otherwise the naive one takes the other's tzinfo by replace().
compare_datetimes_safely(dt1, dt2, operation) ==
    IF dt1.k = "none" \/ dt2.k = "none" THEN FALSE
    ELSE IF dt1.k = dt2.k THEN
        IF dt1.k = "aware" THEN Cmp(UtcMicros(dt1), UtcMicros(dt2), operation)
        ELSE Cmp(WallMicros(dt1), WallMicros(dt2), operation)
    ELSE IF dt1.k = "naive" THEN
        Cmp(UtcMicros(AwareDT(dt1.wall, dt1.us, dt2.off)), UtcMicros(dt2), operation)
    ELSE
        Cmp(UtcMicros(dt1), UtcMicros(AwareDT(dt2.wall, dt2.us, dt1.off)), operation)

\* get_today_range: local midnight of today and of the next day.
get_today_range(c, loc) ==
    LET start_date == Midnight(NowLocal(c, loc))
    IN  <<start_date, PlusOneDay(start_date)>>


\* strftime('%Y-%m-%dT%H:%M:%S.%fZ'): the wall-clock fields of the datetime
\* followed by six fractional digits and the letter Z; the offset of the
\* datetime, if it has one, is not printed.
strftime_Z(dt) ==
    TsStr(dt.wall, << (dt.us \div 100000) % 10, (dt.us \div 10000) % 10,
                      (dt.us \div 1000) % 10, (dt.us \div 100) % 10,
                      (dt.us \div 10) % 10, dt.us % 10 >>, "Z", 0)

\* The query parameters of a request: none, those of the primary request
\* (lines 147-167: today = datetime.now(), its midnight, the next midnight) or
\* those of the fallback request (lines 276-278).
NoParams ==
    [k |-> "none", startDateTime |-> EmptyStr, endDateTime |-> EmptyStr]
primary_params(c, loc) ==
    LET today      == NowNaive(c, loc)
        start_date == Midnight(today)
        end_date   == PlusOneDay(start_date)
    IN  [k |-> "calendarView", startDateTime |-> strftime_Z(start_date),
         endDateTime |-> strftime_Z(end_date)]
fallback_params ==
    [k |-> "appointments", startDateTime |-> EmptyStr, endDateTime |-> EmptyStr]

\* ---------------------------------------------------------- appointments
\* A field of an appointment that holds a time: shape = "missing" (the key is
\* absent), "null" (the key holds null), "nested" ({dateTime: str}) or "bare"
\* (the string itself).
TimeField(shape, str) == [shape |-> shape, str |-> str]
\* A name field: shape = "missing", "null" or "str" (val, possibly "").
NameField(shape, val) == [shape |-> shape, val |-> val]

\* appointment.get('startDateTime', {}) followed by the isinstance test: the
\* string handed to the parser ('' stands for every falsy value).
time_str(field) ==
    IF field.shape \in {"nested", "bare"} THEN field.str ELSE EmptyStr

\* not start_time_str
Falsy(s) == s.k = "empty"

\* appointment.get('customerName', 'Unknown Customer') inside the f-string:
\* the default is used only when the key is absent; null prints as "None".
name_or(field, default) ==
    IF field.shape = "missing" THEN default
    ELSE IF field.shape = "null" THEN "None"
    ELSE field.val

\* f"{customer_name} - {service_name}"
title_of(appointment) ==
    << name_or(appointment.customerName, "Unknown Customer"),
       name_or(appointment.serviceName, "Booking") >>

\* current_booking = None
NoBooking == [none |-> TRUE]

\* The dict built at lines 219-225 / 229-235.
booking_dict(appointment, start_local, end_local, is_current) ==
    [ title      |-> title_of(appointment),
      start      |-> FormatTime(start_local),
      end        |-> FormatTime(end_local),
      duration   |-> UtcMicros(end_local) - UtcMicros(start_local),
      is_current |-> is_current ]

\* The result of the selection loop: the dict (or None) and, for the claims,
\* the local start of the record it was built from and the position of that
\* record in the list (0 when nothing was selected).
Selected(b, start_local, i) == [b |-> b, start_local |-> start_local, idx |-> i]
NothingSelected == Selected(NoBooking, NoneDT, 0)

RECURSIVE select_from(_, _, _, _)
\* The for loop of lines 181-240 (and 315-368), from record i on.
select_from(appointments, i, now, loc) ==
    IF i > Len(appointments) THEN NothingSelected
    ELSE
      LET appointment    == appointments[i]
          start_time_str == time_str(appointment.startDateTime)
          end_time_str   == time_str(appointment.endDateTime)
          start_time     == parse_graph_datetime(start_time_str)
          end_time       == parse_graph_datetime(end_time_str)
          start_local    == astimezone(start_time, loc)
          end_local      == astimezone(end_time, loc)
      IN  IF Falsy(start_time_str) \/ Falsy(end_time_str)
            THEN select_from(appointments, i + 1, now, loc)
          ELSE IF start_time.k = "none" \/ end_time.k = "none"
            THEN select_from(appointments, i + 1, now, loc)
          ELSE IF compare_datetimes_safely(now, start_local, "lt")
            THEN Selected(booking_dict(appointment, start_local, end_local, FALSE),
                          start_local, i)
          ELSE IF compare_datetimes_safely(start_local, now, "le")
                  /\ compare_datetimes_safely(now, end_local, "le")
            THEN Selected(booking_dict(appointment, start_local, end_local, TRUE),
                          start_local, i)
          ELSE select_from(appointments, i + 1, now, loc)

\* The loop started one record late.
select_next_from_second(appointments, c, loc) ==
    select_from(appointments, 2, NowLocal(c, loc), loc)

\* Lines 178-240: now = datetime.now().astimezone(), then the loop.
select_next(appointments, c, loc) ==
    select_from(appointments, 1, NowLocal(c, loc), loc)

\* The test of line 303 with the end of the window included.
in_today_inclusive(appointment, start_date, end_date, loc) ==
    LET start_time_str == time_str(appointment.startDateTime)
        start_dt       == parse_graph_datetime(start_time_str)
        start_dt_local == astimezone(start_dt, loc)
    IN  /\ ~Falsy(start_time_str)
        /\ start_dt.k # "none"
        /\ compare_datetimes_safely(start_date, start_dt_local, "le")
        /\ compare_datetimes_safely(start_dt_local, end_date, "le")

\* The test of lines 298-304 on one record of the fallback list.
in_today(appointment, start_date, end_date, loc) ==
    LET start_time_str == time_str(appointment.startDateTime)
        start_dt       == parse_graph_datetime(start_time_str)
        start_dt_local == astimezone(start_dt, loc)
    IN  /\ ~Falsy(start_time_str)
        /\ start_dt.k # "none"
        /\ compare_datetimes_safely(start_date, start_dt_local, "le")
        /\ compare_datetimes_safely(start_dt_local, end_date, "lt")

\* Lines 286-307: the records of the fallback list that start today.
filter_today(all_appointments, c, loc) ==
    LET r == get_today_range(c, loc)
    IN  SelectSeq(all_appointments, LAMBDA a : in_today(a, r[1], r[2], loc))


\* ------------------------------------------------- what the remote API sends
Z(w) == TsStr(w, <<>>, "Z", 0)
Nested(str) == TimeField("nested", str)
Bare(str) == TimeField("bare", str)
Appt(s, e, c, v) ==
    [startDateTime |-> s, endDateTime |-> e, customerName |-> c, serviceName |-> v]

Today0 == DayLen          \* the first tick of the day the clock starts in
Ann == NameField("str", "Ann")
Demo == NameField("str", "Demo")

\* Records of the remote API: in progress or upcoming today, over by
\* ClockStart, begun yesterday and still running, dated tomorrow, dated
\* yesterday, and records whose times are absent or do not parse.
ApptEarly    == Appt(Nested(Z(Today0)), Nested(Z(Today0)), Ann, Demo)
ApptNow      == Appt(Nested(Z(Today0 + 1)), Nested(Z(Today0 + 2)), Ann, Demo)
ApptLater    == Appt(Nested(TsStr(Today0 + 3, <<0, 0, 0, 0, 0, 0, 0>>, "Z", 0)),
                     Nested(TsStr(Today0 + 5, <<0, 0, 0, 0, 0, 0, 0>>, "Z", 0)),
                     NameField("missing", ""), NameField("missing", ""))
ApptLocal    == Appt(Bare(TsStr(Today0 + 2, <<>>, "none", 0)),
                     Bare(TsStr(Today0 + 3, <<5>>, "none", 0)),
                     NameField("null", ""), NameField("str", ""))
ApptOvernight == Appt(Nested(Z(Today0 - 1)), Nested(Z(Today0 + 3)), Ann, Demo)
ApptTomorrow == Appt(Nested(Z(Today0 + DayLen + 1)), Nested(Z(Today0 + DayLen + 2)), Ann, Demo)
ApptYesterday == Appt(Nested(Z(Today0 - 3)), Nested(Z(Today0 - 2)), Ann, Demo)
ApptNoEnd    == Appt(Nested(Z(Today0 + 2)), TimeField("missing", EmptyStr), Ann, Demo)
ApptGarbage  == Appt(Bare(GarbageStr), Nested(Z(Today0 + 3)), Ann, Demo)

Appointments ==
    { ApptEarly, ApptNow, ApptLater, ApptLocal, ApptOvernight, ApptTomorrow,
      ApptYesterday, ApptNoEnd, ApptGarbage }

\* Every list of at most n records.
ListsUpTo(S, n) == UNION { [1..k -> S] : k \in 0..n }
AllLists == ListsUpTo(Appointments, MaxRecords)
\* The lists the concurrent specification draws from.
SmallLists == { <<>>, <<ApptNow>> }

\* The UTC offsets the process's time zone is drawn from: every one of them
\* for the sequential specification, UTC for the concurrent one.
LocalOffsets == {0, 1}
UtcOnly == {0}

\* ------------------------------------------------------------------ state
Handlers == {"h1"}
Threads == {"bg", "main"} \cup Handlers

\* Where a thread is inside fetch_bookings / fetch_bookings_fallback.
FetchPcs == { "fb_start", "acq", "fb_send", "fb_hdr", "fb_req", "fb_wait",
              "fbk_send", "fbk_req", "fbk_wait", "fbk_sel", "fb_wcb", "fb_now",
              "fb_wlu", "fb_ret", "fb_hung" }

VARIABLES
    clock,            \* the wall clock, in UTC ticks
    loc,              \* the UTC offset of the process's time zone
    current_booking,  \* global current_booking
    last_updated,     \* global last_updated
    access_token,     \* global access_token: 0 is None, otherwise a token
    expired,          \* the tokens that have expired
    pc,               \* where each thread is
    sleep_left,       \* what is left of the background loop's time.sleep
    route,            \* the route a handler thread is serving
    hdr_tok,          \* the token in the headers of a thread's request
    params,           \* the query parameters of a thread's request
    all_appointments, \* local all_appointments of fetch_bookings_fallback
    appointments,     \* local appointments (the list the selection scans)
    now,              \* local now of the selection
    next_appointment, \* local next_appointment
    now_read,         \* the value of datetime.now() about to be stored
    obs,              \* what a reading handler has loaded so far
    cycle,            \* history of a thread's refresh cycle in progress
    cb_by,            \* the cycle that wrote current_booking (0: none)
    lu_by,            \* the cycle that wrote last_updated (0: none)
    call,             \* a function called on its own: its name and arguments
    ret               \* what that call returned

vars == << clock, loc, current_booking, last_updated, access_token, expired,
           pc, sleep_left, route, hdr_tok, params, all_appointments,
           appointments, now, next_appointment, now_read, obs, cycle, cb_by,
           lu_by, call, ret >>

harness == << call, ret >>
shared == << current_booking, last_updated, access_token, expired, cb_by, lu_by >>
locals == << hdr_tok, params, all_appointments, appointments, now, next_appointment,
             now_read >>

NoCycle ==
    [ id |-> 0, acq |-> "none", nacq |-> 0, nfetch |-> 0, st1 |-> "none",
      st2 |-> "none",
      same_tok |-> TRUE, wrote_cb |-> FALSE, wrote_lu |-> FALSE,
      replaced |-> FALSE, before |-> {} ]
\* What a reading handler has loaded: the cycles that wrote the values.
NoObs == [cb_by |-> 0, lu_by |-> 0]

InRefresh(t) == pc[t] \in FetchPcs

\* No function is called on its own while the server runs.
NoCall == [fn |-> "none"]
NoRet == [k |-> "none"]

\* The cycle ids in use; a new cycle takes the least one that is free.
UsedIds == { cycle[t].id : t \in Threads } \cup { obs[t].cb_by : t \in Threads }
           \cup { obs[t].lu_by : t \in Threads } \cup { cb_by, lu_by }
FreshId == CHOOSE i \in 1..(2 * Cardinality(Threads) + 3) :
              i \notin UsedIds /\ \A j \in 1..(i - 1) : j \in UsedIds

ServerInit(offsets) ==
    /\ clock = ClockStart
    /\ loc \in offsets
    /\ current_booking = NoBooking
    /\ last_updated = NoneDT
    /\ access_token = 0
    /\ expired = {}
    /\ pc = [t \in Threads |->
               IF t = "bg" THEN "loop" ELSE IF t = "main" THEN "init" ELSE "idle"]
    /\ sleep_left = 0
    /\ route = [t \in Threads |-> "none"]
    /\ hdr_tok = [t \in Threads |-> 0]
    /\ params = [t \in Threads |-> NoParams]
    /\ all_appointments = [t \in Threads |-> <<>>]
    /\ appointments = [t \in Threads |-> <<>>]
    /\ now = [t \in Threads |-> NoneDT]
    /\ next_appointment = [t \in Threads |-> NothingSelected]
    /\ now_read = [t \in Threads |-> NoneDT]
    /\ obs = [t \in Threads |-> NoObs]
    /\ cycle = [t \in Threads |-> NoCycle]
    /\ cb_by = 0
    /\ lu_by = 0

InitWith(offsets) ==
    /\ ServerInit(offsets)
    /\ call = NoCall
    /\ ret = NoRet

Init == InitWith(UtcOnly)
SeqInit == InitWith(LocalOffsets)


\* ------------------------------------------------------- fetch_bookings
SetPc(t, p) == pc' = [pc EXCEPT ![t] = p]
Note(t, f, v) == cycle' = [cycle EXCEPT ![t][f] = v]

\* A thread enters fetch_bookings: a new refresh cycle begins.
CallFetch(t) ==
    /\ SetPc(t, "fb_start")
    /\ cycle' = [cycle EXCEPT ![t] = NoCycle]

\* if not access_token: (line 141)
CheckToken(t) ==
    /\ pc[t] = "fb_start"
    /\ SetPc(t, IF access_token = 0 THEN "acq" ELSE "fb_send")
    /\ UNCHANGED << clock, loc, harness, shared, sleep_left, route, locals, obs, cycle >>

\* A token is held while the global or a request's headers carry it; the
\* credential service issues a token that is not held.
Held == ({access_token} \cup {hdr_tok[t] : t \in Threads}) \ {0}
NewToken == CHOOSE k \in 1..(Cardinality(Threads) + 2) :
               k \notin Held /\ \A j \in 1..(k - 1) : j \in Held

\* get_access_token returns True: the token is stored (lines 49-52).
AcquireOk(t) ==
    /\ pc[t] = "acq"
    /\ access_token' = NewToken
    /\ expired' = expired \ {NewToken}
    /\ SetPc(t, "fb_send")
    /\ Note(t, "nacq", cycle[t].nacq + 1)
    /\ UNCHANGED << clock, loc, harness, current_booking, last_updated, cb_by, lu_by,
                    sleep_left, route, locals, obs >>

\* The return of line 143 left out: the cycle goes on to the fetch.
AcquireFailGoesOn(t) ==
    /\ pc[t] = "acq"
    /\ SetPc(t, "fb_send")
    /\ cycle' = [cycle EXCEPT ![t].acq = "failed", ![t].nacq = @ + 1]
    /\ UNCHANGED << clock, loc, harness, shared, sleep_left, route, locals, obs >>

\* get_access_token returns False (denied, or the call raised): return.
AcquireFail(t) ==
    /\ pc[t] = "acq"
    /\ SetPc(t, "fb_ret")
    /\ cycle' = [cycle EXCEPT ![t].acq = "failed", ![t].nacq = @ + 1]
    /\ UNCHANGED << clock, loc, harness, shared, sleep_left, route, locals, obs >>

\* The threads with a request to the remote API in flight or with its answer
\* in hand and not yet published.
Pending == { u \in Threads : pc[u] \in {"fb_wait", "fbk_wait", "fbk_sel", "fb_wcb"} }

\* Thread t issues a request: its cycle counts it and notes the threads
\* whose request was issued before; t's request is now the latest.
Issued(t) ==
    [ u \in Threads |->
        IF u = t THEN [cycle[t] EXCEPT !.nfetch = @ + 1, !.before = Pending \ {t}]
        ELSE [cycle[u] EXCEPT !.before = @ \ {t}] ]

\* Lines 147-153: today = datetime.now() is read and the bounds of the
\* window are formatted (the params dict of lines 163-167 holds them).
TodayRange(t) ==
    /\ pc[t] = "fb_send"
    /\ params' = [params EXCEPT ![t] = primary_params(clock, loc)]
    /\ SetPc(t, "fb_hdr")
    /\ UNCHANGED << clock, loc, harness, shared, sleep_left, route, hdr_tok,
                    all_appointments, appointments, now, next_appointment, now_read,
                    obs, cycle >>

\* Lines 158-161: the headers take the token that is stored now.
HeadersPrimary(t) ==
    /\ pc[t] = "fb_hdr"
    /\ hdr_tok' = [hdr_tok EXCEPT ![t] = access_token]
    /\ SetPc(t, "fb_req")
    /\ UNCHANGED << clock, loc, harness, shared, sleep_left, route, params,
                    all_appointments, appointments, now, next_appointment, now_read,
                    obs, cycle >>

\* Line 171: requests.get is entered, the request is on its way.
SendPrimary(t) ==
    /\ pc[t] = "fb_req"
    /\ SetPc(t, "fb_wait")
    /\ cycle' = Issued(t)
    /\ UNCHANGED << clock, loc, harness, shared, sleep_left, route, locals, obs >>

\* The remote API accepts a token that has not expired.
Accepted(t) == hdr_tok[t] \notin expired

\* Status 200 with a list of records: lines 173-240.
Primary200(t, lists) ==
    /\ pc[t] = "fb_wait"
    /\ Accepted(t)
    /\ \E l \in lists :
         /\ appointments' = [appointments EXCEPT ![t] = l]
         /\ now' = [now EXCEPT ![t] = NowLocal(clock, loc)]
         /\ next_appointment' =
              [next_appointment EXCEPT ![t] = select_next(l, clock, loc)]
    /\ hdr_tok' = [hdr_tok EXCEPT ![t] = 0]
    /\ params' = [params EXCEPT ![t] = NoParams]
    /\ SetPc(t, "fb_wcb")
    /\ Note(t, "st1", "200")
    /\ UNCHANGED << clock, loc, harness, shared, sleep_left, route, all_appointments,
                    now_read, obs >>

\* What every path that leaves the try block without a write does.
Abort(t, field, status) ==
    /\ SetPc(t, "fb_ret")
    /\ cycle' = [cycle EXCEPT ![t][field] = status, ![t].same_tok = TRUE]
    /\ hdr_tok' = [hdr_tok EXCEPT ![t] = 0]
    /\ params' = [params EXCEPT ![t] = NoParams]
    /\ UNCHANGED << clock, loc, harness, shared, sleep_left, route, all_appointments,
                    appointments, now, next_appointment, now_read, obs >>

\* Status 200 whose body is not a list of records: response.json() or
\* appointment.get raises, the handler of line 260 logs it.
PrimaryBadBody(t) ==
    /\ pc[t] = "fb_wait"
    /\ Accepted(t)
    /\ Abort(t, "st1", "badbody")

\* The else branch of line 257 clearing the published booking.
PrimaryOtherClears(t) ==
    /\ pc[t] = "fb_wait"
    /\ SetPc(t, "fb_ret")
    /\ cycle' = [cycle EXCEPT ![t].st1 = "other", ![t].same_tok = TRUE]
    /\ hdr_tok' = [hdr_tok EXCEPT ![t] = 0]
    /\ params' = [params EXCEPT ![t] = NoParams]
    /\ current_booking' = NoBooking
    /\ UNCHANGED << clock, loc, harness, last_updated, access_token, expired, cb_by,
                    lu_by, sleep_left, route, all_appointments, appointments,
                    now, next_appointment, now_read, obs >>

\* Any status but 200 and 404 (line 257).
PrimaryOther(t) ==
    /\ pc[t] = "fb_wait"
    /\ Abort(t, "st1", "other")

\* The handler of line 260 left out: the exception ends the thread.
PrimaryRaisesUncaught(t) ==
    /\ pc[t] = "fb_wait"
    /\ SetPc(t, "dead")
    /\ cycle' = [cycle EXCEPT ![t].st1 = "raised", ![t].same_tok = TRUE]
    /\ hdr_tok' = [hdr_tok EXCEPT ![t] = 0]
    /\ params' = [params EXCEPT ![t] = NoParams]
    /\ UNCHANGED << clock, loc, harness, shared, sleep_left, route, all_appointments,
                    appointments, now, next_appointment, now_read, obs >>

\* requests.get raises (line 260).
PrimaryRaises(t) ==
    /\ pc[t] = "fb_wait"
    /\ Abort(t, "st1", "raised")

\* Status 404: fetch_bookings_fallback is called (lines 251-255).
Primary404(t) ==
    /\ pc[t] = "fb_wait"
    /\ Accepted(t)
    /\ SetPc(t, "fbk_send")
    /\ Note(t, "st1", "404")
    /\ UNCHANGED << clock, loc, harness, shared, sleep_left, route, locals, obs >>

\* Lines 269-278: the fallback's headers take the token that is stored now,
\* and its params are built.
HeadersFallback(t) ==
    /\ pc[t] = "fbk_send"
    /\ hdr_tok' = [hdr_tok EXCEPT ![t] = access_token]
    /\ params' = [params EXCEPT ![t] = fallback_params]
    /\ SetPc(t, "fbk_req")
    /\ Note(t, "same_tok", access_token = hdr_tok[t])
    /\ UNCHANGED << clock, loc, harness, shared, sleep_left, route, all_appointments,
                    appointments, now, next_appointment, now_read, obs >>

\* Line 280: requests.get is entered, the fallback request is on its way.
SendFallback(t) ==
    /\ pc[t] = "fbk_req"
    /\ SetPc(t, "fbk_wait")
    /\ cycle' = Issued(t)
    /\ UNCHANGED << clock, loc, harness, shared, sleep_left, route, locals, obs >>

\* Status 200 on the fallback: the list is filtered to today (lines 282-309).
Fallback200(t, lists) ==
    /\ pc[t] = "fbk_wait"
    /\ Accepted(t)
    /\ \E l \in lists :
         /\ all_appointments' = [all_appointments EXCEPT ![t] = l]
         /\ appointments' = [appointments EXCEPT ![t] = filter_today(l, clock, loc)]
    /\ hdr_tok' = [hdr_tok EXCEPT ![t] = 0]
    /\ params' = [params EXCEPT ![t] = NoParams]
    /\ SetPc(t, "fbk_sel")
    /\ cycle' = [cycle EXCEPT ![t].st2 = "200", ![t].same_tok = TRUE]
    /\ UNCHANGED << clock, loc, harness, shared, sleep_left, route, now,
                    next_appointment, now_read, obs >>

\* Lines 311-368: the selection over the filtered list.
FallbackSelect(t) ==
    /\ pc[t] = "fbk_sel"
    /\ now' = [now EXCEPT ![t] = NowLocal(clock, loc)]
    /\ next_appointment' =
         [next_appointment EXCEPT ![t] = select_next(appointments[t], clock, loc)]
    /\ SetPc(t, "fb_wcb")
    /\ UNCHANGED << clock, loc, harness, shared, sleep_left, route, hdr_tok, params,
                    all_appointments, appointments, now_read, obs, cycle >>

FallbackBadBody(t) ==
    /\ pc[t] = "fbk_wait"
    /\ Accepted(t)
    /\ Abort(t, "st2", "badbody")

\* Any status but 200, 404 included (line 379).
FallbackOther(t) ==
    /\ pc[t] = "fbk_wait"
    /\ \E st \in {"404", "other"} :
         /\ st = "404" => Accepted(t)
         /\ Abort(t, "st2", st)

\* requests.get raises in the fallback (line 382).
FallbackRaises(t) ==
    /\ pc[t] = "fbk_wait"
    /\ Abort(t, "st2", "raised")

\* The assignment of lines 242 and 370 made only when a record was selected.
WriteBookingIfAny(t) ==
    /\ pc[t] = "fb_wcb"
    /\ current_booking' = IF next_appointment[t].b = NoBooking
                           THEN current_booking ELSE next_appointment[t].b
    /\ cb_by' = FreshId
    /\ SetPc(t, "fb_now")
    /\ cycle' = [cycle EXCEPT ![t].id = FreshId, ![t].wrote_cb = TRUE,
                              ![t].replaced = (current_booking # NoBooking)]
    /\ all_appointments' = [all_appointments EXCEPT ![t] = <<>>]
    /\ appointments' = [appointments EXCEPT ![t] = <<>>]
    /\ now' = [now EXCEPT ![t] = NoneDT]
    /\ next_appointment' = [next_appointment EXCEPT ![t] = NothingSelected]
    /\ UNCHANGED << clock, loc, harness, last_updated, access_token, expired, lu_by,
                    sleep_left, route, hdr_tok, params, now_read, obs >>

\* The assignment of lines 242 and 370 keeping a published booking that is
\* in progress.
WriteBookingKeepsCurrent(t) ==
    /\ pc[t] = "fb_wcb"
    /\ current_booking' = IF current_booking # NoBooking /\ current_booking.is_current
                           THEN current_booking ELSE next_appointment[t].b
    /\ cb_by' = FreshId
    /\ SetPc(t, "fb_now")
    /\ cycle' = [cycle EXCEPT ![t].id = FreshId, ![t].wrote_cb = TRUE,
                              ![t].replaced = (current_booking # NoBooking)]
    /\ all_appointments' = [all_appointments EXCEPT ![t] = <<>>]
    /\ appointments' = [appointments EXCEPT ![t] = <<>>]
    /\ now' = [now EXCEPT ![t] = NoneDT]
    /\ next_appointment' = [next_appointment EXCEPT ![t] = NothingSelected]
    /\ UNCHANGED << clock, loc, harness, last_updated, access_token, expired,
                    lu_by, sleep_left, route, hdr_tok, params, now_read, obs >>

\* current_booking = next_appointment (lines 242 and 370).  The cycle takes
\* its id here; the locals the function no longer reads are dropped.
WriteBooking(t) ==
    /\ pc[t] = "fb_wcb"
    /\ current_booking' = next_appointment[t].b
    /\ cb_by' = FreshId
    /\ SetPc(t, "fb_now")
    /\ cycle' = [cycle EXCEPT ![t].id = FreshId, ![t].wrote_cb = TRUE,
                              ![t].replaced = (current_booking # NoBooking)]
    /\ all_appointments' = [all_appointments EXCEPT ![t] = <<>>]
    /\ appointments' = [appointments EXCEPT ![t] = <<>>]
    /\ now' = [now EXCEPT ![t] = NoneDT]
    /\ next_appointment' = [next_appointment EXCEPT ![t] = NothingSelected]
    /\ UNCHANGED << clock, loc, harness, last_updated, access_token, expired, lu_by,
                    sleep_left, route, hdr_tok, params, now_read, obs >>

\* datetime.now() of lines 243 and 371 is evaluated ...
ReadNow(t) ==
    /\ pc[t] = "fb_now"
    /\ now_read' = [now_read EXCEPT ![t] = NowNaive(clock, loc)]
    /\ SetPc(t, "fb_wlu")
    /\ UNCHANGED << clock, loc, harness, shared, sleep_left, route, hdr_tok, params,
                    all_appointments, appointments, now, next_appointment, obs,
                    cycle >>

\* ... and stored: last_updated = datetime.now()
WriteUpdated(t) ==
    /\ pc[t] = "fb_wlu"
    /\ last_updated' = now_read[t]
    /\ lu_by' = cycle[t].id
    /\ SetPc(t, "fb_ret")
    /\ Note(t, "wrote_lu", TRUE)
    /\ UNCHANGED << clock, loc, harness, current_booking, access_token, expired, cb_by,
                    sleep_left, route, locals, obs >>

\* fetch_bookings returns to its caller: the loop sleeps, the main thread
\* goes on to app.run, a handler sends its response.
Return(t) ==
    /\ pc[t] = "fb_ret"
    /\ SetPc(t, IF t = "bg" THEN "sleep" ELSE IF t = "main" THEN "serve" ELSE "idle")
    /\ sleep_left' = IF t = "bg" THEN RefreshInterval ELSE sleep_left
    /\ route' = [route EXCEPT ![t] = "none"]
    /\ hdr_tok' = [hdr_tok EXCEPT ![t] = 0]
    /\ params' = [params EXCEPT ![t] = NoParams]
    /\ all_appointments' = [all_appointments EXCEPT ![t] = <<>>]
    /\ appointments' = [appointments EXCEPT ![t] = <<>>]
    /\ now' = [now EXCEPT ![t] = NoneDT]
    /\ next_appointment' = [next_appointment EXCEPT ![t] = NothingSelected]
    /\ now_read' = [now_read EXCEPT ![t] = NoneDT]
    /\ cycle' = [ u \in Threads |->
                    IF u = t THEN NoCycle ELSE [cycle[u] EXCEPT !.before = @ \ {t}] ]
    /\ UNCHANGED << clock, loc, harness, shared, obs >>

\* One step of a thread inside fetch_bookings, the API answering from lists.
FetchStep(t, lists) ==
    \/ CheckToken(t)
    \/ AcquireOk(t)
    \/ AcquireFail(t)
    \/ TodayRange(t)
    \/ HeadersPrimary(t)
    \/ SendPrimary(t)
    \/ Primary200(t, lists)
    \/ PrimaryBadBody(t)
    \/ PrimaryOther(t)
    \/ PrimaryRaises(t)
    \/ Primary404(t)
    \/ HeadersFallback(t)
    \/ SendFallback(t)
    \/ Fallback200(t, lists)
    \/ FallbackSelect(t)
    \/ FallbackBadBody(t)
    \/ FallbackOther(t)
    \/ FallbackRaises(t)
    \/ WriteBooking(t)
    \/ ReadNow(t)
    \/ WriteUpdated(t)
    \/ Return(t)

\* ------------------------------------------------------ callers and readers
\* update_bookings_loop: while True: fetch_bookings() ...
BgCall ==
    /\ pc["bg"] = "loop"
    /\ CallFetch("bg")
    /\ UNCHANGED << clock, loc, harness, shared, sleep_left, route, locals, obs >>

\* ... time.sleep(CONFIG['refresh_interval']): the interval runs down, and
\* the loop is back at its head when nothing is left of it.
SleepTick ==
    /\ pc["bg"] = "sleep"
    /\ sleep_left > 0
    /\ sleep_left' = sleep_left - 1
    /\ SetPc("bg", IF sleep_left = 1 THEN "loop" ELSE "sleep")
    /\ UNCHANGED << clock, loc, harness, shared, route, locals, obs, cycle >>

\* __main__: the initial fetch, after the background thread was started.
MainCall ==
    /\ pc["main"] = "init"
    /\ CallFetch("main")
    /\ UNCHANGED << clock, loc, harness, shared, sleep_left, route, locals, obs >>

\* app.run is serving once the initial fetch has returned.
Serving == pc["main"] = "serve"

\* GET /refresh
Refresh(h) ==
    /\ Serving
    /\ pc[h] = "idle"
    /\ route' = [route EXCEPT ![h] = "refresh"]
    /\ CallFetch(h)
    /\ UNCHANGED << clock, loc, harness, shared, sleep_left, locals, obs >>

\* GET / and GET /api/booking begin.
BeginRead(h) ==
    /\ Serving
    /\ pc[h] = "idle"
    /\ \E r \in {"index", "api_booking"} : route' = [route EXCEPT ![h] = r]
    /\ SetPc(h, "rd_cb")
    /\ UNCHANGED << clock, loc, harness, shared, sleep_left, locals, obs, cycle >>

\* The handler loads global current_booking (lines 529 and 550) ...
ReadBooking(h) ==
    /\ pc[h] = "rd_cb"
    /\ obs' = [obs EXCEPT ![h].cb_by = cb_by]
    /\ SetPc(h, "rd_lu")
    /\ UNCHANGED << clock, loc, harness, shared, sleep_left, route, locals, cycle >>

\* ... then global last_updated (line 530; line 551 tests it first and, when
\* it is set, loads it a second time for isoformat).
ReadUpdated(h) ==
    /\ pc[h] \in {"rd_lu", "rd_lu2"}
    /\ obs' = [obs EXCEPT ![h].lu_by = lu_by]
    /\ SetPc(h, IF pc[h] = "rd_lu" /\ route[h] = "api_booking"
                   /\ last_updated # NoneDT
                THEN "rd_lu2" ELSE "rd_done")
    /\ UNCHANGED << clock, loc, harness, shared, sleep_left, route, locals, cycle >>

\* The response is sent with what was loaded.
Respond(h) ==
    /\ pc[h] = "rd_done"
    /\ SetPc(h, "idle")
    /\ route' = [route EXCEPT ![h] = "none"]
    /\ obs' = [obs EXCEPT ![h] = NoObs]
    /\ UNCHANGED << clock, loc, harness, shared, sleep_left, locals, cycle >>

HandlerStep(h) ==
    \/ Refresh(h)
    \/ BeginRead(h)
    \/ ReadBooking(h)
    \/ ReadUpdated(h)
    \/ Respond(h)

\* ------------------------------------------------------------ environment
Tick ==
    /\ clock < MaxClock
    /\ clock' = clock + 1
    /\ UNCHANGED << loc, harness, shared, pc, sleep_left, route, locals, obs, cycle >>

\* A token expires.  The tokens that are no longer held are forgotten:
\* nothing reads them.
Expire ==
    /\ \E k \in Held \ expired : expired' = (expired \cap Held) \cup {k}
    /\ UNCHANGED << clock, loc, harness, current_booking, last_updated, access_token,
                    cb_by, lu_by, pc, sleep_left, route, locals, obs, cycle >>

\* --------------------------------------------------------- specifications
\* The server within one tick of the clock: the background loop, the
\* start-up fetch and the handler threads run concurrently.
Next ==
    \/ \E t \in Threads : FetchStep(t, SmallLists)
    \/ BgCall
    \/ SleepTick
    \/ MainCall
    \/ \E h \in Handlers : HandlerStep(h)

Spec == Init /\ [][Next]_vars

\* The background loop alone, over time: the clock advances, tokens expire
\* and the API answers with any list of records.
SeqNext ==
    \/ FetchStep("bg", AllLists)
    \/ BgCall
    \/ SleepTick
    \/ Tick
    \/ Expire

SeqSpec == SeqInit /\ [][SeqNext]_vars

\* The server when the thread of the background loop is always scheduled
\* again and every call it makes to the outside returns or raises.  The
\* thread always has a step to take, the selection of the fallback among
\* them: that step is enabled exactly while the thread stands at "fbk_sel",
\* so weak fairness of it is that the thread leaves "fbk_sel" again and
\* again.  Every other step of the thread is weakly fair as BgOther.
BgNext ==
    \/ FetchStep("bg", SmallLists)
    \/ BgCall
    \/ SleepTick

BgOther == pc["bg"] # "fbk_sel" /\ BgNext

LiveSpec == Spec /\ WF_vars(BgOther) /\ []<>(pc["bg"] # "fbk_sel")

\* requests.get(url, headers=headers, params=params) is called without a
\* timeout (lines 171 and 280): when the remote API never answers, the call
\* never returns and the thread stays inside it.
Stall(t) ==
    /\ pc[t] \in {"fb_wait", "fbk_wait"}
    /\ SetPc(t, "fb_hung")
    /\ UNCHANGED << clock, loc, harness, shared, sleep_left, route, locals, obs, cycle >>

\* The server with a remote API that may stall.  The thread of the
\* background loop is always scheduled again, and a call that is answered
\* returns (the fairness of LiveSpec).
StallNext ==
    \/ Next
    \/ \E t \in Threads : Stall(t)

StallSpec ==
    Init /\ [][StallNext]_vars /\ WF_vars(BgOther) /\ []<>(pc["bg"] # "fbk_sel")

\* Start-up over time: the thread of the background loop and the initial
\* fetch of the main thread run their refreshes side by side while the clock
\* advances, the API answering with lists of a few records.
PairLists == { <<>>, <<ApptLocal>>, <<ApptNoEnd, ApptNow>> }
PairNext ==
    \/ \E t \in {"bg", "main"} : FetchStep(t, PairLists)
    \/ BgCall
    \/ SleepTick
    \/ MainCall
    \/ Tick

PairSpec == Init /\ [][PairNext]_vars

\* ------------------------------------------ functions called on their own
\* The fractional digits a timestamp string may carry: none to MaxFracDigits
\* of them, counting up from 1 or all 9.
MaxFracDigits == 9
Fractions ==
    { [i \in 1..n |-> i % 10] : n \in 0..MaxFracDigits }
      \cup { [i \in 1..n |-> 9] : n \in 0..MaxFracDigits }
\* The magnitudes of the UTC offsets a timestamp string may state.
StatedOffsets == 0..2
\* Well-formed timestamp strings, and strings that hold no date.
TsStrings ==
    { TsStr(w, f, "Z", 0) : w \in {Today0 + 1, Today0 + DayLen}, f \in Fractions }
      \cup { TsStr(w, f, z, o) : w \in {Today0 + 1, Today0 + DayLen}, f \in Fractions,
                                 z \in {"plus", "minus"}, o \in StatedOffsets }
      \cup { TsStr(Today0 + 1, f, "none", 0) : f \in Fractions }
Strings == TsStrings \cup {EmptyStr, GarbageStr}

Value(v) == [k |-> "value", v |-> v]
server == << clock, loc, shared, pc, sleep_left, route, locals, obs, cycle >>

ParseCalls == { [fn |-> "parse_graph_datetime", args |-> <<str>>] : str \in Strings }

\* parse_graph_datetime(datetime_str) is called and returns.
CallParse ==
    /\ call.fn = "parse_graph_datetime"
    /\ ret = NoRet
    /\ ret' = Value(parse_graph_datetime(call.args[1]))
    /\ UNCHANGED << server, call >>

\* Datetime objects: None, naive ones and aware ones of several offsets.
Datetimes ==
    {NoneDT}
      \cup { NaiveDT(w, u) : w \in {Today0, Today0 + 1}, u \in {0, 500000} }
      \cup { AwareDT(w, u, o) : w \in {Today0, Today0 + 1}, u \in {0, 500000},
                                o \in {0 - 1, 0, 1} }
Operations == {"lt", "le", "gt", "ge"}
CompareCalls ==
    { [fn |-> "compare_datetimes_safely", args |-> <<dt1, dt2, operation>>] :
        dt1 \in Datetimes, dt2 \in Datetimes, operation \in Operations }

\* compare_datetimes_safely(dt1, dt2, operation) is called and returns.
CallCompare ==
    /\ call.fn = "compare_datetimes_safely"
    /\ ret = NoRet
    /\ ret' = Value(compare_datetimes_safely(call.args[1], call.args[2], call.args[3]))
    /\ UNCHANGED << server, call >>

Calls == ParseCalls \cup CompareCalls

FnInit ==
    /\ ServerInit(LocalOffsets)
    /\ call \in Calls
    /\ ret = NoRet

FnNext ==
    \/ CallParse
    \/ CallCompare

\* Each function of the module called once, on every input of its set.
FnSpec == FnInit /\ [][FnNext]_vars

\* ------------------------------------------------------------------ claims
\* C1: a reader never sees a current_booking written by one refresh together
\* with a last_updated that is absent or was written by another refresh.
C1_NoTornRead ==
    \A h \in Handlers :
        (pc[h] = "rd_done" /\ obs[h].cb_by # 0) => obs[h].lu_by = obs[h].cb_by

\* C2: at every moment at most one execution of the refresh routine is in
\* progress.
C2_SingleWriter == Cardinality({ t \in Threads : InRefresh(t) }) <= 1

\* C3: a cycle whose credential acquisition fails issues no fetch, writes
\* neither current_booking nor last_updated, and returns.
AcquisitionFailed(t) == cycle[t].acq = "failed"
WroteNothing(t) == ~cycle[t].wrote_cb /\ ~cycle[t].wrote_lu
C3_CredentialFailureAborts ==
    [][ \A t \in Threads :
          /\ (AcquisitionFailed(t)' /\ ~AcquisitionFailed(t)) =>
                /\ UNCHANGED << current_booking, last_updated >>
                /\ pc'[t] = "fb_ret"
          /\ AcquisitionFailed(t)' =>
                /\ cycle'[t].nfetch = 0
                /\ WroteNothing(t)'
                /\ pc'[t] = "fb_ret"
          /\ (AcquisitionFailed(t) /\ ~AcquisitionFailed(t)') =>
                /\ UNCHANGED << current_booking, last_updated >>
                /\ ~InRefresh(t)' ]_vars
C3_Witness ==
    \E t \in Threads :
        AcquisitionFailed(t) /\ pc[t] = "fb_ret" /\ current_booking # NoBooking

\* C4: a cycle that begins while the stored credential is expired acquires a
\* new one before it issues a fetch.
C4_ExpiredTokenIsRenewed ==
    [][ \A t \in Threads :
          (pc[t] = "fb_start" /\ access_token \in expired) => pc'[t] # "fb_send" ]_vars

\* C5: a fetch that answers with a status other than 200 (and, on the
\* primary, other than 404) or that raises ends the cycle with neither
\* current_booking nor last_updated written.
FetchFailed(t) ==
    \/ cycle[t].st1 \in {"other", "raised"}
    \/ cycle[t].st2 \in {"404", "other", "raised"}
C5_FetchFailureKeepsState ==
    [][ \A t \in Threads :
          /\ (FetchFailed(t)' /\ ~FetchFailed(t)) =>
                UNCHANGED << current_booking, last_updated >>
          /\ FetchFailed(t)' => (WroteNothing(t)' /\ pc'[t] = "fb_ret")
          /\ (FetchFailed(t) /\ ~FetchFailed(t)') =>
                /\ UNCHANGED << current_booking, last_updated >>
                /\ ~InRefresh(t)' ]_vars
C5_Witness ==
    \E t \in Threads :
        /\ cycle[t].st2 = "404"
        /\ pc[t] = "fb_ret"
        /\ current_booking # NoBooking
        /\ \A u \in Threads \ {t} : ~InRefresh(u)

\* C6: the fallback runs exactly in the cycles whose primary fetch answered
\* 404, with the credential of the primary fetch, and a fallback answer of
\* 200 with a list of records is followed by the two writes.
InFallback(t) == pc[t] \in {"fbk_send", "fbk_req", "fbk_wait", "fbk_sel"}
C6_FallbackOn404SameCredential ==
    \A t \in Threads :
        /\ InFallback(t) => cycle[t].st1 = "404"
        /\ (cycle[t].st1 = "404" /\ cycle[t].st2 = "none") => InFallback(t)
        /\ cycle[t].same_tok
        /\ (pc[t] = "fb_ret" /\ cycle[t].st2 = "200") =>
              (cycle[t].wrote_cb /\ cycle[t].wrote_lu)

\* C7: the background loop never stops: whatever its calls answer, every
\* attempt it starts reaches the sleep with the full interval ahead, and
\* another attempt follows.
C7_LoopNeverTerminates ==
    /\ []<>(pc["bg"] = "fb_start")
    /\ []<>(pc["bg"] = "sleep" /\ sleep_left = RefreshInterval)
C7_Witness ==
    /\ pc["bg"] = "sleep"
    /\ sleep_left = RefreshInterval
    /\ current_booking # NoBooking
    /\ access_token # 0

\* The records of a list, read without the program's parser: a time field
\* holds a time when it is a timestamp string; the instant it states is its
\* wall-clock reading less its offset (the local offset when it states none).
HasTime(f) == f.shape \in {"nested", "bare"} /\ f.str.k = "ts"
InstantOf(f, l) ==
    LET o == CASE f.str.tz = "Z" -> 0
               [] f.str.tz = "plus" -> f.str.off
               [] f.str.tz = "minus" -> 0 - f.str.off
               [] OTHER -> l
    IN  (f.str.wall - o) * MicrosPerTick + TruncMicros(f.str.frac)
Usable(a) == HasTime(a.startDateTime) /\ HasTime(a.endDateTime)
Upcoming(a, n, l) == Usable(a) /\ n < InstantOf(a.startDateTime, l)
InProgress(a, n, l) ==
    Usable(a) /\ InstantOf(a.startDateTime, l) <= n /\ n <= InstantOf(a.endDateTime, l)
Qualifies(a, n, l) == Upcoming(a, n, l) \/ InProgress(a, n, l)
FirstQualifying(list, n, l) ==
    IF \E i \in 1..Len(list) : Qualifies(list[i], n, l)
    THEN CHOOSE i \in 1..Len(list) :
            Qualifies(list[i], n, l) /\ \A j \in 1..(i - 1) : ~Qualifies(list[j], n, l)
    ELSE 0
SortedByStart(list, l) ==
    /\ \A i \in 1..Len(list) : HasTime(list[i].startDateTime)
    /\ \A i, j \in 1..Len(list) :
          i < j => InstantOf(list[i].startDateTime, l) <= InstantOf(list[j].startDateTime, l)
CurrentBeforeNext(list, n, l) ==
    \E i, j \in 1..Len(list) :
        i < j /\ InProgress(list[i], n, l) /\ Upcoming(list[j], n, l)

\* C8: over a list sorted by start, the selection takes the first record
\* that is upcoming or in progress, in progress records as is_current, and
\* that selection is what is published.
SelectedFirstQualifying(t) ==
    LET list == appointments[t]
        n    == UtcMicros(now[t])
        k    == FirstQualifying(list, n, loc)
        sel  == next_appointment[t]
    IN  SortedByStart(list, loc) =>
          /\ sel.idx = k
          /\ k = 0 => sel.b = NoBooking
          /\ k # 0 => /\ sel.b # NoBooking
                      /\ sel.b.is_current = InProgress(list[k], n, loc)
          /\ CurrentBeforeNext(list, n, loc) =>
                (sel.b # NoBooking /\ sel.b.is_current /\ InProgress(list[sel.idx], n, loc))
C8_FirstQualifyingSelected ==
    [][ \A t \in Threads :
          /\ pc[t] = "fb_wcb" => SelectedFirstQualifying(t)
          /\ (pc[t] = "fb_wcb" /\ pc'[t] # "fb_wcb") =>
                current_booking' = next_appointment[t].b ]_vars
C8_Witness ==
    \E t \in Threads :
        /\ pc[t] = "fb_wcb"
        /\ SortedByStart(appointments[t], loc)
        /\ CurrentBeforeNext(appointments[t], UtcMicros(now[t]), loc)
        /\ next_appointment[t].idx = 1
        /\ next_appointment[t].b.is_current

\* The calendar day of the wall-clock fields of a datetime.
DateOf(dt) == dt.wall \div DayLen

\* C9: a booking a refresh publishes starts on the local calendar day of the
\* now it was selected at.
C9_PublishedStartsToday ==
    [][ \A t \in Threads :
          (pc[t] = "fb_wcb" /\ pc'[t] # "fb_wcb" /\ current_booking' # NoBooking) =>
              DateOf(next_appointment[t].start_local) = DateOf(now[t]) ]_vars

\* C10: a refresh whose fetch answered 200 with a list in which no record is
\* upcoming or in progress writes an absent current_booking, and then sets
\* last_updated.
FetchedList(t) ==
    IF cycle[t].st1 = "404" THEN all_appointments[t] ELSE appointments[t]
NoneQualifies(t) ==
    \A i \in 1..Len(FetchedList(t)) :
        ~Qualifies(FetchedList(t)[i], UtcMicros(now[t]), loc)
C10_NothingQualifiesPublishesAbsent ==
    [][ \A t \in Threads :
          /\ (pc[t] = "fb_wcb" /\ pc'[t] # "fb_wcb" /\ NoneQualifies(t)) =>
                (current_booking' = NoBooking /\ pc'[t] = "fb_now")
          /\ (pc[t] = "fb_now" /\ pc'[t] # "fb_now") => pc'[t] = "fb_wlu"
          /\ (pc[t] = "fb_wlu" /\ pc'[t] # "fb_wlu") =>
                /\ last_updated' # NoneDT
                /\ last_updated' = NowNaive(now_read[t].wall - loc, loc)
                /\ current_booking' = current_booking ]_vars
C10_Witness ==
    \E t \in Threads :
        /\ pc[t] = "fb_ret"
        /\ cycle[t].replaced
        /\ cycle[t].wrote_lu
        /\ current_booking = NoBooking
        /\ last_updated # NoneDT

\* C11: a record whose start or end is missing, empty or does not parse is
\* skipped and the scan goes on: the selection never takes such a record, it
\* takes the first record of the list that is usable and upcoming or in
\* progress whatever unusable records stand before it, it is absent when no
\* record is usable, and that is what is published.
SkipsUnusable(t) ==
    LET list == appointments[t]
        n    == UtcMicros(now[t])
        sel  == next_appointment[t]
    IN  /\ sel.idx # 0 => Usable(list[sel.idx])
        /\ sel.idx = FirstQualifying(list, n, loc)
        /\ (sel.b = NoBooking) = (sel.idx = 0)
        /\ (\A i \in 1..Len(list) : ~Usable(list[i])) => sel.b = NoBooking
C11_UnusableRecordSkipped ==
    [][ \A t \in Threads :
          pc[t] = "fb_wcb" =>
            /\ SkipsUnusable(t)
            /\ pc'[t] # "fb_wcb" => current_booking' = next_appointment[t].b ]_vars
C11_Witness ==
    \E t \in Threads :
        /\ pc[t] = "fb_wcb"
        /\ Len(appointments[t]) = 2
        /\ ~Usable(appointments[t][1])
        /\ next_appointment[t].idx = 2

\* C12: when a /refresh handler returns from a fetch that succeeded, the
\* published booking is not the result of a request that was issued before
\* the handler's own request.
C12_RefreshNotOverwrittenByOlder ==
    \A h \in Handlers :
        (pc[h] = "fb_ret" /\ route[h] = "refresh" /\ cycle[h].wrote_lu) =>
            ~ \E u \in cycle[h].before : cycle[u].wrote_cb /\ cycle[u].id = cb_by

\* The instant a sent bound states to a reader of the query string: its
\* letter Z says the wall-clock fields are UTC.
SentInstant(str) == str.wall * MicrosPerTick + TruncMicros(str.frac)
\* The wall-clock reading of an instant in the zone of offset l.
LocalWall(instant, l) == instant + l * MicrosPerTick

\* C13: the bounds a primary request carries, converted back to local time,
\* are local midnight of today and local midnight of the next day.
C13_SentWindowIsLocalDay ==
    [][ \A t \in Threads :
          (pc[t] = "fb_send" /\ pc'[t] = "fb_hdr") =>
            LET day == (clock + loc) \div DayLen
            IN  /\ params'[t].startDateTime.tz = "Z"
                /\ LocalWall(SentInstant(params'[t].startDateTime), loc)
                      = day * DayLen * MicrosPerTick
                /\ LocalWall(SentInstant(params'[t].endDateTime), loc)
                      = (day + 1) * DayLen * MicrosPerTick ]_vars

\* C14: for a timestamp string with 0 to MaxFracDigits fractional digits
\* and a Z, a positive or a negative offset, parse_graph_datetime returns an
\* aware datetime with the wall-clock fields of the string, its fraction cut
\* to six digits (padded with zeros when shorter) and the offset it states.
Pow10(n) == IF n = 0 THEN 1 ELSE IF n = 1 THEN 10 ELSE IF n = 2 THEN 100
            ELSE IF n = 3 THEN 1000 ELSE IF n = 4 THEN 10000 ELSE 100000
FirstSixAsMicros(frac) ==
    LET m == IF Len(frac) < 6 THEN Len(frac) ELSE 6
        Sum[i \in 0..m] == IF i = 0 THEN 0 ELSE Sum[i - 1] + frac[i] * Pow10(6 - i)
    IN  Sum[m]
StatedOffset(str) ==
    IF str.tz = "plus" THEN str.off ELSE IF str.tz = "minus" THEN 0 - str.off ELSE 0
C14_ParseKeepsOffsetCutsFraction ==
    (call.fn = "parse_graph_datetime" /\ ret # NoRet
       /\ call.args[1].k = "ts" /\ call.args[1].tz \in {"Z", "plus", "minus"}) =>
        /\ ret.k = "value"
        /\ ret.v.k = "aware"
        /\ ret.v.wall = call.args[1].wall
        /\ ret.v.us = FirstSixAsMicros(call.args[1].frac)
        /\ ret.v.off = StatedOffset(call.args[1])
C14_Witness ==
    /\ call.fn = "parse_graph_datetime"
    /\ ret # NoRet
    /\ call.args[1].tz = "minus"
    /\ call.args[1].off = 2
    /\ Len(call.args[1].frac) = 9
    /\ ret.v.us = 123456
    /\ ret.v.off = 0 - 2

\* The order of two numbers under an operation.
Holds(a, operation, b) ==
    \/ operation = "lt" /\ a < b
    \/ operation = "le" /\ a <= b
    \/ operation = "gt" /\ a > b
    \/ operation = "ge" /\ a >= b
\* Where a datetime stands when a naive one is read in the zone of offset o.
PositionIn(dt, o) ==
    (dt.wall - (IF dt.k = "aware" THEN dt.off ELSE o)) * MicrosPerTick + dt.us

\* C15: for aware and naive operands in any combination and each of lt, le,
\* gt, ge, compare_datetimes_safely returns a boolean: the order of the two
\* instants, a naive operand read in the zone of the aware one; and it
\* returns false when an operand cannot be compared at all.
C15_CompareAlwaysAnswers ==
    (call.fn = "compare_datetimes_safely" /\ ret # NoRet) =>
        LET dt1 == call.args[1]
            dt2 == call.args[2]
            o   == IF dt1.k = "aware" THEN dt1.off ELSE dt2.off
        IN  /\ ret.k = "value"
            /\ ret.v \in BOOLEAN
            /\ (dt1.k = "none" \/ dt2.k = "none") => ret.v = FALSE
            /\ (dt1.k # "none" /\ dt2.k # "none") =>
                  ret.v = Holds(PositionIn(dt1, o), call.args[3], PositionIn(dt2, o))
C15_Witness ==
    /\ call.fn = "compare_datetimes_safely"
    /\ ret # NoRet
    /\ call.args[1].k = "naive"
    /\ call.args[2].k = "aware"
    /\ call.args[2].off = 1
    /\ call.args[3] = "le"
    /\ ret.v = TRUE

\* C16: two refreshes whose selection scans the same list at the same now
\* select the same booking, and each publishes exactly that booking.
SameInput(t, u) ==
    /\ pc[t] = "fb_wcb" /\ pc[u] = "fb_wcb"
    /\ appointments[t] = appointments[u]
    /\ now[t] = now[u]
C16_SelectionIdempotent ==
    [][ \A t, u \in Threads :
          (t # u /\ SameInput(t, u)) =>
            /\ next_appointment[t].b = next_appointment[u].b
            /\ pc'[t] # "fb_wcb" => current_booking' = next_appointment[u].b ]_vars
C16_Witness ==
    /\ SameInput("bg", "main")
    /\ appointments["bg"] # <<>>
    /\ current_booking # NoBooking
    /\ current_booking # next_appointment["bg"].b
    /\ clock > ClockStart

\* C17: a /refresh handler issues at most one request to the remote API
\* before it returns.
C17_RefreshOneRoundTrip ==
    \A h \in Handlers : route[h] = "refresh" => cycle[h].nfetch <= 1

\* C18: a remote API that stalls does not freeze the background loop: the
\* loop starts another attempt again and again.
C18_StallDoesNotFreezeLoop == []<>(pc["bg"] = "fb_start")

\* C19: the record a refresh publishes is the first one that is upcoming or
\* in progress, the ends of its interval included: with now at its start or
\* at its end it is published as current, with now before its start as not
\* current, and a record whose end lies before now is not published.
C19_ClassificationInclusive ==
    [][ \A t \in Threads :
          (pc[t] = "fb_wcb" /\ pc'[t] # "fb_wcb") =>
            LET list == appointments[t]
                n    == UtcMicros(now[t])
                k    == next_appointment[t].idx
                S(i) == InstantOf(list[i].startDateTime, loc)
                E(i) == InstantOf(list[i].endDateTime, loc)
            IN  /\ k = FirstQualifying(list, n, loc)
                /\ \A i \in 1..Len(list) :
                      (Usable(list[i]) /\ S(i) <= E(i) /\ E(i) < n) => k # i
                /\ k = 0 => current_booking' = NoBooking
                /\ k # 0 =>
                      /\ current_booking' # NoBooking
                      /\ (S(k) <= E(k) /\ (n = S(k) \/ n = E(k))) =>
                            current_booking'.is_current
                      /\ n < S(k) => ~current_booking'.is_current ]_vars
C19_Witness ==
    \E t \in Threads :
        /\ pc[t] = "fb_wcb"
        /\ next_appointment[t].idx = 2
        /\ appointments[t][1] = ApptEarly
        /\ UtcMicros(now[t]) = InstantOf(appointments[t][2].endDateTime, loc)
        /\ UtcMicros(now[t]) > InstantOf(appointments[t][2].startDateTime, loc)
        /\ next_appointment[t].b.is_current

\* A record starts today when its start, read on the local wall clock, lies
\* from local midnight of the day of instant c up to, and not including,
\* the next local midnight.
StartsToday(a, c, l) ==
    /\ HasTime(a.startDateTime)
    /\ LET day   == (c + l) \div DayLen
           start == LocalWall(InstantOf(a.startDateTime, l), l)
       IN  /\ day * DayLen * MicrosPerTick <= start
           /\ start < (day + 1) * DayLen * MicrosPerTick

\* C20: the list the fallback hands to the selection holds exactly the
\* fetched records that start today, in the order they were fetched in.
C20_FallbackWindowEndExclusive ==
    [][ \A t \in Threads :
          (pc[t] = "fbk_wait" /\ pc'[t] = "fbk_sel") =>
            appointments'[t] =
              SelectSeq(all_appointments'[t], LAMBDA a : StartsToday(a, clock, loc)) ]_vars
C20_Witness ==
    \E t \in Threads :
        /\ pc[t] = "fbk_sel"
        /\ loc = 1
        /\ all_appointments[t] = <<ApptOvernight, ApptLater>>
        /\ appointments[t] = <<ApptOvernight>>

\* The wall-clock fields of a naive datetime, labelled with the offset of
\* another datetime and otherwise untouched.
Reinterpreted(dt, other) ==
    [k |-> "aware", wall |-> dt.wall, us |-> dt.us, off |-> other.off]
\* Two datetimes of the same awareness compared as they are: aware ones by
\* the instants they name, naive ones by their wall-clock fields.
Direct(a, operation, b) ==
    IF a.k = "aware"
    THEN Holds((a.wall - a.off) * MicrosPerTick + a.us, operation,
               (b.wall - b.off) * MicrosPerTick + b.us)
    ELSE Holds(a.wall * MicrosPerTick + a.us, operation,
               b.wall * MicrosPerTick + b.us)

\* C21: when exactly one operand of compare_datetimes_safely carries an
\* offset, the result is the comparison made after the naive operand's
\* wall-clock fields are relabelled with the other operand's offset, without
\* converting them; when both or neither carry an offset, the operands are
\* compared as they are.
C21_NaiveOperandReinterpreted ==
    (call.fn = "compare_datetimes_safely" /\ ret # NoRet) =>
        LET dt1 == call.args[1]
            dt2 == call.args[2]
            operation == call.args[3]
        IN  /\ (dt1.k = "naive" /\ dt2.k = "aware") =>
                  ret.v = Direct(Reinterpreted(dt1, dt2), operation, dt2)
            /\ (dt1.k = "aware" /\ dt2.k = "naive") =>
                  ret.v = Direct(dt1, operation, Reinterpreted(dt2, dt1))
            /\ (dt1.k = dt2.k /\ dt1.k # "none") =>
                  ret.v = Direct(dt1, operation, dt2)
C21_Witness ==
    /\ call.fn = "compare_datetimes_safely"
    /\ ret # NoRet
    /\ call.args[1] = NaiveDT(Today0, 0)
    /\ call.args[2] = AwareDT(Today0 + 1, 0, 1)
    /\ call.args[3] = "lt"
    /\ ret.v = TRUE

\* "{name or default}": the default stands in for a name that is missing,
\* null or the empty string.
NameOrDefault(field, default) ==
    IF field.shape \in {"missing", "null"} \/ field.val = "" THEN default
    ELSE field.val

\* C22: the title a refresh publishes is "<customer> - <service>" of the
\* record it selected, with 'Unknown Customer' for a customerName that is
\* missing, null or empty and 'Booking' for a serviceName that is missing,
\* null or empty.
C22_TitleDefaults ==
    [][ \A t \in Threads :
          (pc[t] = "fb_wcb" /\ pc'[t] # "fb_wcb" /\ next_appointment[t].idx # 0) =>
            LET a == appointments[t][next_appointment[t].idx]
            IN  current_booking'.title =
                  << NameOrDefault(a.customerName, "Unknown Customer"),
                     NameOrDefault(a.serviceName, "Booking") >> ]_vars

\* What a refresh cycle has used so far: credential acquisitions and
\* requests to the remote API.
WithinBudget(t) == cycle[t].nacq <= 1 /\ cycle[t].nfetch <= 2
\* The fallback is entered from the primary's answer only, as the second
\* request of the cycle, and its answer leads to the publication or to the
\* return, never to another request.
NoReentry(t) ==
    /\ (pc'[t] = "fbk_send" /\ pc[t] # "fbk_send") =>
          (pc[t] = "fb_wait" /\ cycle[t].nfetch = 1)
    /\ (pc[t] \in {"fbk_wait", "fbk_sel"} /\ pc'[t] # pc[t]) =>
          pc'[t] \in {"fbk_sel", "fb_wcb", "fb_ret", "fb_hung"}
    /\ (pc[t] = "fbk_wait" /\ cycle'[t].st2 \notin {"none", "200"}) =>
          pc'[t] = "fb_ret"

\* C23: a refresh cycle acquires a credential at most once and sends at
\* most two requests, the fallback at most once and never followed by
\* another request; and every cycle the background loop begins comes to its
\* end.
C23_CycleBoundedAndEnds ==
    /\ [](\A t \in Threads : WithinBudget(t))
    /\ [][\A t \in Threads : NoReentry(t)]_vars
    /\ (pc["bg"] = "fb_start" ~> pc["bg"] = "sleep")

\* C24: last_updated never decreases: whichever threads refresh and however
\* their steps interleave, each write of last_updated stores a time that is
\* not earlier than the time it replaces.
C24_LastUpdatedMonotonic ==
    [][ (last_updated # NoneDT /\ last_updated' # last_updated) =>
            /\ last_updated' # NoneDT
            /\ last_updated'.wall * MicrosPerTick + last_updated'.us
                   >= last_updated.wall * MicrosPerTick + last_updated.us ]_vars

=============================================================================
